---- MODULE Spec2Model ----
(***************************************************************************)
(* ValueStore (src/LiveComponent/assets/src/Component/ValueStore.ts): the  *)
(* three maps props (original), dirtyProps and pendingProps, and the       *)
(* operations get, has, set, flushDirtyPropsToPending,                     *)
(* reinitializeAllProps, pushPendingPropsBackToDirty and                   *)
(* reinitializeProvidedProps.                                              *)
(*                                                                         *)
(* A JavaScript value is a string naming it: a scalar is named by its      *)
(* text, an object by its heap identity, so that = on names is ===.        *)
(* A model name or an object key is a sequence of tokens, so that          *)
(* normalizing and splitting a name are computed, not assumed.             *)
(***************************************************************************)
EXTENDS Integers, Sequences, FiniteSets, TLC

VARIABLES props, dirtyProps, pendingProps, lastOp, written, sent, inflight, snap

vars == <<props, dirtyProps, pendingProps, lastOp, written, sent, inflight, snap>>

store == <<props, dirtyProps, pendingProps>>

-----------------------------------------------------------------------------
(* Values *)

UNDEFINED == "undefined"

NULL == "null"

identifierKey == <<"@id">>

A == <<"a">>

USER == <<"user">>

FIRSTNAME == <<"firstName">>

\* The objects of the heap. objRyan and objRyanCopy have the same fields and
\* different identities; plainObj carries no identifier marker; objOwner
\* carries none and holds an object that does.
Objects == {"objRyan", "objRyanCopy", "objChanged", "objKevin", "plainObj", "objOwner"}

Fields(v) ==
    CASE v = "objRyan" -> (identifierKey :> "123" @@ FIRSTNAME :> "Ryan")
      [] v = "objRyanCopy" -> (identifierKey :> "123" @@ FIRSTNAME :> "Ryan")
      [] v = "objChanged" -> (identifierKey :> "123" @@ FIRSTNAME :> "Changed")
      [] v = "objKevin" -> (identifierKey :> "456" @@ FIRSTNAME :> "Kevin")
      [] v = "plainObj" -> (FIRSTNAME :> "Ryan")
      [] v = "objOwner" -> (FIRSTNAME :> "objKevin")
      [] OTHER -> <<>>

\* typeof v === 'object': true of every object and of null.
typeofObject(v) == v = NULL \/ v \in Objects

\* v[key] for a v that is neither null nor undefined.
Prop(v, key) == IF v \in Objects /\ key \in DOMAIN Fields(v) THEN Fields(v)[key] ELSE UNDEFINED

\* map[key] for one of the store's maps.
Lookup(map, key) == IF key \in DOMAIN map THEN map[key] ELSE UNDEFINED

\* map[key] = value.
Put(map, key, value) == [k \in DOMAIN map \cup {key} |-> IF k = key THEN value ELSE map[k]]

\* { ...under, ...over }.
Spread(under, over) ==
    [k \in DOMAIN under \cup DOMAIN over |-> IF k \in DOMAIN over THEN over[k] ELSE under[k]]

EmptyMap == [k \in {} |-> UNDEFINED]

-----------------------------------------------------------------------------
(* Names *)

\* a[b][c] -> a.b.c
normalizeModelName(model) ==
    LET dotted == [i \in 1..Len(model) |-> IF model[i] = "[" THEN "." ELSE model[i]]
        keep(t) == t # "]"
    IN SelectSeq(dotted, keep)

RECURSIVE Split(_)
\* propertyPath.split('.')
Split(path) ==
    IF \A i \in 1..Len(path) : path[i] # "."
    THEN <<path>>
    ELSE LET i == CHOOSE j \in 1..Len(path) : path[j] = "." /\ \A h \in 1..(j - 1) : path[h] # "."
         IN <<SubSeq(path, 1, i - 1)>> \o Split(SubSeq(path, i + 1, Len(path)))

RECURSIVE Descend(_, _)
Descend(v, parts) ==
    IF parts = <<>> THEN v
    ELSE IF v \in Objects THEN Descend(Prop(v, Head(parts)), Tail(parts))
    ELSE UNDEFINED

\* Nested lookup of a normalized path: undefined for an absent key at any level.
getDeepData(data, propertyPath) ==
    LET parts == Split(propertyPath)
    IN Descend(Lookup(data, Head(parts)), Tail(parts))

\* isPropNameTopLevel answering true for every name.
isPropNameTopLevelAlways(key) == TRUE

isPropNameTopLevel(key) == \A i \in 1..Len(key) : key[i] # "."

-----------------------------------------------------------------------------
(* get, has, findIdentifier on given maps *)

\* get with the pending map consulted before the dirty map.
getFromPendingFirst(d, p, o, name) ==
    LET normalizedName == normalizeModelName(name)
        value == getDeepData(o, normalizedName)
    IN IF Lookup(p, normalizedName) # UNDEFINED THEN Lookup(p, normalizedName)
       ELSE IF Lookup(d, normalizedName) # UNDEFINED THEN Lookup(d, normalizedName)
       ELSE IF value = NULL THEN value
       ELSE IF isPropNameTopLevel(normalizedName) /\ typeofObject(value)
               /\ Prop(value, identifierKey) # UNDEFINED
            THEN Prop(value, identifierKey)
       ELSE value

\* get looking a path up inside the dirty and pending values as it does in
\* original.
getFromNestedEverywhere(d, p, o, name) ==
    LET normalizedName == normalizeModelName(name)
        value == getDeepData(o, normalizedName)
    IN IF getDeepData(d, normalizedName) # UNDEFINED THEN getDeepData(d, normalizedName)
       ELSE IF getDeepData(p, normalizedName) # UNDEFINED THEN getDeepData(p, normalizedName)
       ELSE IF value = NULL THEN value
       ELSE IF isPropNameTopLevel(normalizedName) /\ typeofObject(value)
               /\ Prop(value, identifierKey) # UNDEFINED
            THEN Prop(value, identifierKey)
       ELSE value

getFrom(d, p, o, name) ==
    LET normalizedName == normalizeModelName(name)
        value == getDeepData(o, normalizedName)
    IN IF Lookup(d, normalizedName) # UNDEFINED THEN Lookup(d, normalizedName)
       ELSE IF Lookup(p, normalizedName) # UNDEFINED THEN Lookup(p, normalizedName)
       ELSE IF value = NULL THEN value
       ELSE IF isPropNameTopLevel(normalizedName) /\ typeofObject(value)
               /\ Prop(value, identifierKey) # UNDEFINED
            THEN Prop(value, identifierKey)
       ELSE value

get(name) == getFrom(dirtyProps, pendingProps, props, name)

\* has with the loose test != null, which counts null as absent.
hasNotNullish(name) == get(name) \notin {UNDEFINED, NULL}

has(name) == get(name) # UNDEFINED

\* value['@id'] is evaluated on null, which is a TypeError.
findIdentifierThrows(value) == typeofObject(value) /\ value = NULL

\* findIdentifier returning the value as it is, marker or not.
findIdentifierIsValue(value) == value

findIdentifier(value) ==
    IF ~typeofObject(value) \/ Prop(value, identifierKey) = UNDEFINED THEN value
    ELSE Prop(value, identifierKey)

-----------------------------------------------------------------------------
(* Inputs *)

RawNames == {A, USER, <<"user", ".", "firstName">>, <<"user", "[", "firstName", "]">>,
             <<"user", "[">>}

\* The scalars a caller writes under the name a are "1" .. MaxScalar.
MaxScalar == 1

SetInputs ==
    ({A} \X ({ToString(i) : i \in 1..MaxScalar} \cup {UNDEFINED}))
    \cup ({USER} \X {"123", "objKevin"})
    \cup ({<<"user", ".", "firstName">>, <<"user", "[", "firstName", "]">>} \X {"Kevin"})

PropsInputs ==
    { EmptyMap,
      (A :> "1" @@ USER :> "objRyan"),
      (A :> NULL @@ USER :> "objKevin"),
      (USER :> "objOwner") }

PatchInputs ==
    { << <<USER, "objChanged">> >>,
      << <<USER, "objKevin">> >>,
      << <<A, "2">>, <<USER, NULL>> >> }

\* What the caller saw of the last call: the method, its arguments, what it
\* returned and whether it threw.
Did(op, name, value, newProps, patch, result, threw) ==
    [op |-> op, name |-> name, value |-> value, newProps |-> newProps, patch |-> patch,
     result |-> result, threw |-> threw]

NoOp == Did("constructor", <<>>, UNDEFINED, EmptyMap, <<>>, "void", FALSE)

Bool(b) == IF b THEN "true" ELSE "false"

\* The map a getter returned to the caller: which getter, the entries the
\* returned object holds now, and whether it is the very object the store
\* holds (alias) or an object of its own.
Returned(kind, map, alias) == [kind |-> kind, map |-> map, alias |-> alias]

NoSnap == Returned("none", EmptyMap, FALSE)

\* The returned object after the store wrote an entry into its own map of
\* that kind in place: an alias shows the write.
snapAfterWrite(kind, map) ==
    IF snap.alias /\ snap.kind = kind THEN Returned(kind, map, TRUE) ELSE snap

\* The returned object after the store replaced its map of that kind by a new
\* object: an alias keeps the old object, which the store no longer holds.
snapAfterReplace(kind) ==
    IF snap.alias /\ snap.kind = kind THEN Returned(kind, snap.map, FALSE) ELSE snap

-----------------------------------------------------------------------------
(* Operations *)

Init ==
    /\ props \in PropsInputs
    /\ dirtyProps = EmptyMap
    /\ pendingProps = EmptyMap
    /\ lastOp = NoOp
    /\ written = EmptyMap
    /\ sent = {}
    /\ inflight = FALSE
    /\ snap = NoSnap

Get(name) ==
    /\ lastOp' = Did("get", name, UNDEFINED, EmptyMap, <<>>, get(name), FALSE)
    /\ UNCHANGED <<store, written, sent, inflight, snap>>

Has(name) ==
    /\ lastOp' = Did("has", name, UNDEFINED, EmptyMap, <<>>, Bool(has(name)), FALSE)
    /\ UNCHANGED <<store, written, sent, inflight, snap>>

\* set comparing the new value with the stored original instead of get's result.
setChangesAgainstOriginal(name, value) == getDeepData(props, normalizeModelName(name)) # value

setChanges(name, value) == get(normalizeModelName(name)) # value

\* set writing under the name as given instead of the normalized name.
setDirtyUnderRawName(name, value) ==
    IF setChanges(name, value) THEN Put(dirtyProps, name, value) ELSE dirtyProps

setDirty(name, value) ==
    IF setChanges(name, value) THEN Put(dirtyProps, normalizeModelName(name), value) ELSE dirtyProps

\* set also deleting the pending entry of the name it writes.
setPendingWithoutName(name, value) ==
    IF setChanges(name, value)
    THEN [k \in DOMAIN pendingProps \ {normalizeModelName(name)} |-> pendingProps[k]]
    ELSE pendingProps

setPending(name, value) == pendingProps

Set(name, value) ==
    /\ dirtyProps' = setDirty(name, value)
    /\ pendingProps' = setPending(name, value)
    /\ lastOp' = Did("set", name, value, EmptyMap, <<>>, Bool(setChanges(name, value)), FALSE)
    /\ written' = IF setChanges(name, value)
                  THEN Put(written, normalizeModelName(name), value) ELSE written
    /\ sent' = IF setChanges(name, value) THEN sent \ {normalizeModelName(name)} ELSE sent
    /\ snap' = snapAfterWrite("dirty", dirtyProps')
    /\ UNCHANGED <<props, inflight>>

\* getOriginalProps returning this.props itself.
getOriginalPropsAliased == Returned("original", props, TRUE)

getOriginalProps == Returned("original", Spread(EmptyMap, props), FALSE)

GetOriginalProps ==
    /\ snap' = getOriginalProps
    /\ lastOp' = Did("getOriginalProps", <<>>, UNDEFINED, EmptyMap, <<>>, "map", FALSE)
    /\ UNCHANGED <<store, written, sent, inflight>>

\* getDirtyProps returning this.dirtyProps itself.
getDirtyPropsAliased == Returned("dirty", dirtyProps, TRUE)

getDirtyProps == Returned("dirty", Spread(EmptyMap, dirtyProps), FALSE)

GetDirtyProps ==
    /\ snap' = getDirtyProps
    /\ lastOp' = Did("getDirtyProps", <<>>, UNDEFINED, EmptyMap, <<>>, "map", FALSE)
    /\ UNCHANGED <<store, written, sent, inflight>>

\* The caller changes the returned object; when that object is one of the
\* store's own maps the store's map is that object and changes with it.
CallerChanges(map) ==
    /\ snap.kind # "none"
    /\ snap' = Returned(snap.kind, map, snap.alias)
    /\ props' = IF snap.alias /\ snap.kind = "original" THEN map ELSE props
    /\ dirtyProps' = IF snap.alias /\ snap.kind = "dirty" THEN map ELSE dirtyProps
    /\ UNCHANGED <<pendingProps, written, sent, inflight>>

\* returned[key] = value
CallerPuts(key, value) ==
    /\ CallerChanges(Put(snap.map, key, value))
    /\ lastOp' = Did("callerPuts", key, value, EmptyMap, <<>>, "void", FALSE)

\* delete returned[key]
CallerDeletes(key) ==
    /\ key \in DOMAIN snap.map
    /\ CallerChanges([k \in DOMAIN snap.map \ {key} |-> snap.map[k]])
    /\ lastOp' = Did("callerDeletes", key, UNDEFINED, EmptyMap, <<>>, "void", FALSE)

\* flush merging dirty into the earlier pending map instead of replacing it.
flushPendingMerged == Spread(pendingProps, dirtyProps)

flushPending == Spread(EmptyMap, dirtyProps)

\* flush leaving the dirty map as it is.
flushDirtyKept == dirtyProps

flushDirty == EmptyMap

FlushDirtyPropsToPending ==
    /\ pendingProps' = flushPending
    /\ dirtyProps' = flushDirty
    /\ lastOp' = Did("flushDirtyPropsToPending", <<>>, UNDEFINED, EmptyMap, <<>>, "void", FALSE)
    /\ sent' = DOMAIN written
    /\ inflight' = TRUE
    /\ snap' = snapAfterReplace("dirty")
    /\ UNCHANGED <<props, written>>

\* reinitializeAllProps leaving the pending map as it is.
reinitPendingKept == pendingProps

reinitPending == EmptyMap

ReinitializeAllProps(newProps) ==
    /\ props' = newProps
    /\ pendingProps' = reinitPending
    /\ lastOp' = Did("reinitializeAllProps", <<>>, UNDEFINED, newProps, <<>>, "void", FALSE)
    /\ written' = [n \in DOMAIN written \ sent |-> written[n]]
    /\ sent' = {}
    /\ inflight' = FALSE
    /\ snap' = snapAfterReplace("original")
    /\ UNCHANGED dirtyProps

\* The merge with the pending entries winning.
pushDirtyPendingWins == Spread(dirtyProps, pendingProps)

\* The failure path dropping the pending entries.
pushDirtyWithoutPending == dirtyProps

pushDirty == Spread(pendingProps, dirtyProps)

PushPendingPropsBackToDirty ==
    /\ dirtyProps' = pushDirty
    /\ pendingProps' = EmptyMap
    /\ lastOp' = Did("pushPendingPropsBackToDirty", <<>>, UNDEFINED, EmptyMap, <<>>, "void", FALSE)
    /\ sent' = {}
    /\ inflight' = FALSE
    /\ snap' = snapAfterReplace("dirty")
    /\ UNCHANGED <<props, written>>

RECURSIVE providedDroppingOthers(_, _, _)
\* The loop replacing the whole of original by the entry that differs.
providedDroppingOthers(entries, o, changed) ==
    IF entries = <<>> THEN [props |-> o, changed |-> changed, threw |-> FALSE]
    ELSE LET key == Head(entries)[1]
             value == Head(entries)[2]
             currentIdentifier == getFrom(dirtyProps, pendingProps, o, key)
         IN IF findIdentifierThrows(value)
            THEN [props |-> o, changed |-> changed, threw |-> TRUE]
            ELSE IF currentIdentifier # findIdentifier(value)
            THEN providedDroppingOthers(Tail(entries), Put(EmptyMap, key, value), TRUE)
            ELSE providedDroppingOthers(Tail(entries), o, changed)

RECURSIVE provided(_, _, _)
\* The loop over Object.entries(props): the props map, the flag and whether
\* findIdentifier threw, after the entries left to visit.
provided(entries, o, changed) ==
    IF entries = <<>> THEN [props |-> o, changed |-> changed, threw |-> FALSE]
    ELSE LET key == Head(entries)[1]
             value == Head(entries)[2]
             currentIdentifier == getFrom(dirtyProps, pendingProps, o, key)
         IN IF findIdentifierThrows(value)
            THEN [props |-> o, changed |-> changed, threw |-> TRUE]
            ELSE IF currentIdentifier # findIdentifier(value)
            THEN provided(Tail(entries), Put(o, key, value), TRUE)
            ELSE provided(Tail(entries), o, changed)

ReinitializeProvidedProps(patch) ==
    LET r == provided(patch, props, FALSE)
    IN /\ props' = r.props
       /\ lastOp' = Did("reinitializeProvidedProps", <<>>, UNDEFINED, EmptyMap, patch,
                        IF r.threw THEN "void" ELSE Bool(r.changed), r.threw)
       /\ snap' = snapAfterWrite("original", props')
       /\ UNCHANGED <<dirtyProps, pendingProps, written, sent, inflight>>

Next ==
    \/ \E name \in RawNames : Get(name)
    \/ \E name \in RawNames : Has(name)
    \/ \E in \in SetInputs : Set(in[1], in[2])
    \/ FlushDirtyPropsToPending
    \/ \E newProps \in PropsInputs : ReinitializeAllProps(newProps)
    \/ PushPendingPropsBackToDirty
    \/ \E patch \in PatchInputs : ReinitializeProvidedProps(patch)

Spec == Init /\ [][Next]_vars

\* The caller that follows the request lifecycle: a flush only when no request
\* is outstanding.
FlushWhenIdle == ~inflight /\ FlushDirtyPropsToPending

NextLifecycle ==
    \/ \E name \in RawNames : Get(name)
    \/ \E name \in RawNames : Has(name)
    \/ \E in \in SetInputs : Set(in[1], in[2])
    \/ FlushWhenIdle
    \/ \E newProps \in PropsInputs : ReinitializeAllProps(newProps)
    \/ PushPendingPropsBackToDirty
    \/ \E patch \in PatchInputs : ReinitializeProvidedProps(patch)

SpecLifecycle == Init /\ [][NextLifecycle]_vars

\* The caller that keeps the maps the getters return and changes them.
SnapshotSetInputs == {<<A, "1">>, <<USER, "objKevin">>}

SnapshotPropsInputs == {(A :> "1" @@ USER :> "objRyan"), (USER :> "objOwner")}

SnapshotPatchInputs == {<< <<USER, "objKevin">> >>, << <<A, "2">>, <<USER, NULL>> >>}

NextSnapshots ==
    \/ Get(A)
    \/ Has(USER)
    \/ \E in \in SnapshotSetInputs : Set(in[1], in[2])
    \/ GetOriginalProps
    \/ GetDirtyProps
    \/ CallerPuts(A, "2")
    \/ CallerDeletes(USER)
    \/ FlushDirtyPropsToPending
    \/ \E newProps \in SnapshotPropsInputs : ReinitializeAllProps(newProps)
    \/ PushPendingPropsBackToDirty
    \/ \E patch \in SnapshotPatchInputs : ReinitializeProvidedProps(patch)

SpecSnapshots == Init /\ [][NextSnapshots]_vars

-----------------------------------------------------------------------------
(* Claims *)

StoredNames == DOMAIN dirtyProps \cup DOMAIN pendingProps

\* The value the nested-path lookup of a normalized name finds in original,
\* with the identifier taken from a top-level object that carries the marker.
OriginalTier(o, normalizedName) ==
    LET value == getDeepData(o, normalizedName)
    IN IF isPropNameTopLevel(normalizedName) /\ value \in Objects
          /\ identifierKey \in DOMAIN Fields(value) /\ Fields(value)[identifierKey] # UNDEFINED
       THEN Fields(value)[identifierKey]
       ELSE value

\* C1 as stated: get(n) is dirty[norm(n)] when defined, otherwise
\* pending[norm(n)] when defined, otherwise the nested-path lookup of norm(n)
\* in original itself.
C1_LookupItself ==
    lastOp.op = "get" =>
        LET nn == normalizeModelName(lastOp.name)
        IN lastOp.result =
                    IF nn \in DOMAIN dirtyProps /\ dirtyProps[nn] # UNDEFINED THEN dirtyProps[nn]
                    ELSE IF nn \in DOMAIN pendingProps /\ pendingProps[nn] # UNDEFINED
                         THEN pendingProps[nn]
                    ELSE getDeepData(props, nn)

\* C1 amended: get(n) resolves by the precedence dirty, pending, original; the
\* original tier is the nested-path lookup of norm(n), replaced by its '@id'
\* when the name is top-level and the value found is an object carrying a
\* defined '@id'; undefined when no tier resolves the name.
C1_Precedence ==
    \A n \in RawNames :
        LET nn == normalizeModelName(n)
        IN get(n) = IF nn \in DOMAIN dirtyProps /\ dirtyProps[nn] # UNDEFINED THEN dirtyProps[nn]
                    ELSE IF nn \in DOMAIN pendingProps /\ pendingProps[nn] # UNDEFINED
                         THEN pendingProps[nn]
                    ELSE OriginalTier(props, nn)

\* A get answered by the pending tier while dirty holds another name and
\* original holds a different value for the name asked.
C1_Witness ==
    /\ lastOp.op = "get"
    /\ lastOp.name = USER
    /\ USER \notin DOMAIN dirtyProps
    /\ USER \in DOMAIN pendingProps
    /\ lastOp.result = pendingProps[USER]
    /\ A \in DOMAIN dirtyProps
    /\ getDeepData(props, USER) \notin {UNDEFINED, pendingProps[USER]}

\* C2 as stated: immediately after set(n, v), get(n) returns v, for any v.
C2_AnyValue == lastOp.op = "set" => get(lastOp.name) = lastOp.value

\* C2 amended: immediately after set(n, v) with v other than undefined,
\* get(n) returns v, whatever original and pending hold for n.
C2_DefinedValue ==
    (lastOp.op = "set" /\ lastOp.value # UNDEFINED) => get(lastOp.name) = lastOp.value

\* A set that wrote a value over different pending and original values, under
\* a name given in bracket notation.
C2_Witness ==
    /\ lastOp.op = "set"
    /\ lastOp.result = "true"
    /\ lastOp.name = <<"user", "[", "firstName", "]">>
    /\ getDeepData(props, normalizeModelName(lastOp.name)) \notin {UNDEFINED, lastOp.value}
    /\ \E n \in DOMAIN pendingProps : pendingProps[n] \notin {UNDEFINED, Lookup(dirtyProps, n)}

\* C3: set(n, v) returns false and changes none of the three maps exactly when
\* v is strictly equal to what get(n) resolves; otherwise it writes
\* dirty[norm(n)] := v, changes no other entry and no other map, and returns
\* true.
C3_SetNoOpOrWrite ==
    [][lastOp'.op = "set" =>
          LET n == lastOp'.name
              v == lastOp'.value
          IN IF v = get(n)
             THEN lastOp'.result = "false" /\ UNCHANGED store
             ELSE /\ lastOp'.result = "true"
                  /\ dirtyProps' = Put(dirtyProps, normalizeModelName(n), v)
                  /\ UNCHANGED <<props, pendingProps>>]_vars

\* A set of the identifier that get extracts from the original object: no write.
C3_Witness ==
    /\ lastOp.op = "set"
    /\ lastOp.name = USER
    /\ lastOp.result = "false"
    /\ USER \notin StoredNames
    /\ getDeepData(props, USER) \in Objects
    /\ lastOp.value = Fields(getDeepData(props, USER))[identifierKey]

Overlap == DOMAIN dirtyProps \cap DOMAIN pendingProps

\* C4 as stated: in every reachable state no name has an entry in both dirty
\* and pending.
C4_NeverBoth == Overlap = {}

\* C4 amended: no name has an entry in both dirty and pending right after
\* flushDirtyPropsToPending, reinitializeAllProps or
\* pushPendingPropsBackToDirty; only set puts a name in both (a write made
\* while pending holds the name), and get then resolves the name to the dirty
\* entry when that entry is not undefined.
C4_OverlapOnlyBySet ==
    [][/\ lastOp'.op \in {"flushDirtyPropsToPending", "reinitializeAllProps",
                          "pushPendingPropsBackToDirty"} => Overlap' = {}
       /\ lastOp'.op # "set" => Overlap' \subseteq Overlap
       /\ \A n \in Overlap' : dirtyProps'[n] # UNDEFINED => get(n)' = dirtyProps'[n]]_vars

\* A set made after a flush: the name is in dirty and in pending with
\* different values.
C4_Witness ==
    /\ lastOp.op = "set"
    /\ \E n \in Overlap : dirtyProps[n] # pendingProps[n] /\ dirtyProps[n] # UNDEFINED

\* C5: flushDirtyPropsToPending moves dirty into pending in one step: pending
\* becomes the dirty map as it was, dirty becomes empty, original is unchanged.
C5_FlushMoves ==
    [][lastOp'.op = "flushDirtyPropsToPending" =>
          /\ pendingProps' = dirtyProps
          /\ dirtyProps' = EmptyMap
          /\ props' = props]_vars

\* A flush that moved entries into pending.
C5_Witness ==
    /\ lastOp.op = "flushDirtyPropsToPending"
    /\ dirtyProps = EmptyMap
    /\ Cardinality(DOMAIN pendingProps) >= 2

\* C6 as stated: reinitializeAllProps(p) sets original to p and pending to
\* empty and leaves dirty as it was; right after a flush, dirty and pending
\* are then both empty and get(n) is the nested-path lookup of n in p itself.
C6_LookupItself ==
    [][lastOp'.op = "reinitializeAllProps" =>
          /\ props' = lastOp'.newProps
          /\ pendingProps' = EmptyMap
          /\ dirtyProps' = dirtyProps
          /\ lastOp.op = "flushDirtyPropsToPending" =>
                /\ dirtyProps' = EmptyMap
                /\ \A n \in RawNames :
                      get(n)' = getDeepData(lastOp'.newProps, normalizeModelName(n))]_vars

\* C6 amended: reinitializeAllProps(p) sets original to p and pending to empty
\* and leaves dirty as it was; right after a flush, dirty and pending are then
\* both empty and get(n) is the nested-path lookup of n in p, replaced by its
\* '@id' when n is top-level and the value found is an object carrying a
\* defined '@id'.
C6_ReinitializeAll ==
    [][lastOp'.op = "reinitializeAllProps" =>
          /\ props' = lastOp'.newProps
          /\ pendingProps' = EmptyMap
          /\ dirtyProps' = dirtyProps
          /\ lastOp.op = "flushDirtyPropsToPending" =>
                /\ dirtyProps' = EmptyMap
                /\ \A n \in RawNames :
                      get(n)' = OriginalTier(lastOp'.newProps, normalizeModelName(n))]_vars

\* A successful round trip with no edit left: both maps empty and the new
\* original, which holds an object carrying the marker, answers get.
C6_Witness ==
    /\ lastOp.op = "reinitializeAllProps"
    /\ dirtyProps = EmptyMap
    /\ pendingProps = EmptyMap
    /\ props = lastOp.newProps
    /\ Lookup(props, USER) \in Objects
    /\ A \in DOMAIN props
    /\ get(A) = props[A]

\* C7: pushPendingPropsBackToDirty merges pending into dirty with dirty
\* winning: each name keeps its dirty entry if dirty had one, otherwise takes
\* the pending entry if pending had one, otherwise stays absent; pending
\* becomes empty and original is unchanged.
C7_PushBackDirtyWins ==
    [][lastOp'.op = "pushPendingPropsBackToDirty" =>
          /\ DOMAIN dirtyProps' = DOMAIN dirtyProps \cup DOMAIN pendingProps
          /\ \A n \in DOMAIN dirtyProps' :
                dirtyProps'[n] = IF n \in DOMAIN dirtyProps THEN dirtyProps[n] ELSE pendingProps[n]
          /\ pendingProps' = EmptyMap
          /\ props' = props]_vars

\* A failed round trip that left several entries in dirty.
C7_Witness ==
    /\ lastOp.op = "pushPendingPropsBackToDirty"
    /\ pendingProps = EmptyMap
    /\ Cardinality(DOMAIN dirtyProps) >= 2

\* C8 as stated: under the request lifecycle, from the moment set(n, v)
\* returns true, get(n) returns the value most recently written for n, until
\* a reinitializeAllProps completes a flush issued after that write.
C8_AnyWrite == \A n \in DOMAIN written : get(n) = written[n]

\* C8 amended: under the request lifecycle, for every name whose most recent
\* write is a value other than undefined, get(n) returns that value from the
\* moment set returned true, across further set, flush and failure
\* completions, until a reinitializeAllProps completes a flush issued after
\* that write.
C8_NoEditLost == \A n \in DOMAIN written : written[n] # UNDEFINED => get(n) = written[n]

\* A write sent and given back by a failed request, beside a name written
\* again while the request was outstanding.
C8_Witness ==
    /\ lastOp.op = "pushPendingPropsBackToDirty"
    /\ \E n \in DOMAIN written : written[n] # UNDEFINED /\ get(n) # OriginalTier(props, n)
    /\ Cardinality(DOMAIN written) >= 2

\* The identifier of a value as C9 states it: its '@id' when the value is an
\* object carrying the marker, otherwise the value itself.
IdentifierOf(value) ==
    IF value \in Objects /\ identifierKey \in DOMAIN Fields(value) THEN Fields(value)[identifierKey]
    ELSE value

\* C9: reinitializeProvidedProps(patch) replaces original[k] by patch[k] for
\* each key k of patch whose resolved value get(k) differs from the identifier
\* of patch[k], leaves original[k] untouched for the other keys of patch, and
\* returns true iff some key differed.
C9_ProvidedProps ==
    [][lastOp'.op = "reinitializeProvidedProps" =>
          LET patch == lastOp'.patch
              differs(i) == get(patch[i][1]) # IdentifierOf(patch[i][2])
          IN /\ \A i \in 1..Len(patch) :
                   IF differs(i)
                   THEN Lookup(props', patch[i][1]) = patch[i][2]
                   ELSE Lookup(props', patch[i][1]) = Lookup(props, patch[i][1])
             /\ lastOp'.result = Bool(\E i \in 1..Len(patch) : differs(i))]_vars

\* C9 on the patches that hold no null value.
C9_WithoutNull ==
    [][(lastOp'.op = "reinitializeProvidedProps"
        /\ \A i \in 1..Len(lastOp'.patch) : lastOp'.patch[i][2] # NULL) =>
          LET patch == lastOp'.patch
              differs(i) == get(patch[i][1]) # IdentifierOf(patch[i][2])
          IN /\ \A i \in 1..Len(patch) :
                   IF differs(i)
                   THEN Lookup(props', patch[i][1]) = patch[i][2]
                   ELSE Lookup(props', patch[i][1]) = Lookup(props, patch[i][1])
             /\ \A k \in (DOMAIN props \cup DOMAIN props') \ {patch[i][1] : i \in 1..Len(patch)} :
                   Lookup(props', k) = Lookup(props, k)
             /\ lastOp'.result = Bool(\E i \in 1..Len(patch) : differs(i))]_vars

\* C10: no operation of the store raises an error, for any argument.
C10_NothingThrows == lastOp.threw = FALSE

\* The first defined value among dirty[n], pending[n] and the nested-path
\* lookup of n in original, for a normalized name n.
Resolved(n) ==
    IF Lookup(dirtyProps, n) # UNDEFINED THEN Lookup(dirtyProps, n)
    ELSE IF Lookup(pendingProps, n) # UNDEFINED THEN Lookup(pendingProps, n)
    ELSE getDeepData(props, n)

\* C12: null is a present value distinct from undefined: has(n) is true iff
\* get(n) is not undefined; a resolved value of null is returned as null and
\* has(n) is then true; a name absent from the three tiers gives undefined
\* and has(n) false.
C12_NullIsPresent ==
    /\ lastOp.op = "has" => lastOp.result = Bool(get(lastOp.name) # UNDEFINED)
    /\ \A n \in RawNames :
          LET nn == normalizeModelName(n)
          IN /\ has(n) <=> get(n) # UNDEFINED
             /\ Resolved(nn) = NULL => get(n) = NULL /\ has(n)
             /\ (nn \notin StoredNames /\ getDeepData(props, nn) = UNDEFINED)
                    => get(n) = UNDEFINED /\ ~has(n)

\* has answered true for a name whose value in original is null, while
\* another name is absent from every tier.
C12_Witness ==
    /\ lastOp.op = "has"
    /\ lastOp.name = A
    /\ lastOp.result = "true"
    /\ A \notin StoredNames
    /\ Lookup(props, A) = NULL
    /\ get(<<"user", "[">>) = UNDEFINED

\* C13: set never modifies original or pending; a set made after a flush
\* leaves the pending snapshot as the flush captured it.
C13_SetFrame ==
    [][lastOp'.op = "set" => props' = props /\ pendingProps' = pendingProps]_vars

\* A set that wrote while a flushed snapshot was outstanding.
C13_Witness ==
    /\ lastOp.op = "set"
    /\ lastOp.result = "true"
    /\ inflight
    /\ pendingProps # EmptyMap
    /\ normalizeModelName(lastOp.name) \in DOMAIN pendingProps

IsNormalized(name) == \A i \in 1..Len(name) : name[i] \notin {"[", "]"}

\* C14: every key of dirty and of pending is a normalized (dot-path) name, and
\* get, has and set called with a non-normalized name give the result and the
\* state they give when called with its normalized form.
C14_NamesNormalized ==
    /\ \A k \in StoredNames : IsNormalized(k) /\ normalizeModelName(k) = k
    /\ \A n \in RawNames :
          /\ get(n) = get(normalizeModelName(n))
          /\ has(n) = has(normalizeModelName(n))
    /\ \A in \in SetInputs :
          /\ setChanges(in[1], in[2]) = setChanges(normalizeModelName(in[1]), in[2])
          /\ setDirty(in[1], in[2]) = setDirty(normalizeModelName(in[1]), in[2])

\* A write under a bracketed name, stored under the dotted name.
C14_Witness ==
    /\ lastOp.op = "set"
    /\ lastOp.result = "true"
    /\ ~IsNormalized(lastOp.name)
    /\ normalizeModelName(lastOp.name) \in DOMAIN dirtyProps
    /\ get(lastOp.name) = lastOp.value

\* The second of two calls of reinitializeProvidedProps in a row with the same
\* patch: what the loop does in the state the first call left.
SecondCall == provided(lastOp.patch, props, FALSE)

\* The keys of the last patch that dirty or pending shadows with a defined entry.
ShadowedKeys ==
    {k \in {lastOp.patch[i][1] : i \in 1..Len(lastOp.patch)} :
        \/ Lookup(dirtyProps, normalizeModelName(k)) # UNDEFINED
        \/ Lookup(pendingProps, normalizeModelName(k)) # UNDEFINED}

C18_GetIsPatchIdentifier ==
    lastOp.op = "reinitializeProvidedProps" =>
        \A i \in 1..Len(lastOp.patch) :
            LET k == normalizeModelName(lastOp.patch[i][1])
            IN (isPropNameTopLevel(k) /\ k \notin StoredNames)
                  => get(k) = IdentifierOf(lastOp.patch[i][2])

\* C18 on the patches that hold no null value.
C18_WithoutNull ==
    (lastOp.op = "reinitializeProvidedProps"
     /\ \A i \in 1..Len(lastOp.patch) : lastOp.patch[i][2] # NULL) =>
        \A i \in 1..Len(lastOp.patch) :
            LET k == normalizeModelName(lastOp.patch[i][1])
            IN (isPropNameTopLevel(k) /\ k \notin StoredNames)
                  => get(k) = IdentifierOf(lastOp.patch[i][2])

\* C19 as stated: a flush drops every earlier pending entry whose name is not
\* in dirty, so get for that name falls back to original; the names in dirty
\* or pending are the same after the flush only when pending was empty before.
C19_PreservedOnlyIfPendingEmpty ==
    [][lastOp'.op = "flushDirtyPropsToPending" =>
          /\ \A n \in DOMAIN pendingProps \ DOMAIN dirtyProps :
                /\ n \notin DOMAIN dirtyProps' \cup DOMAIN pendingProps'
                /\ get(n)' = OriginalTier(props, n)
          /\ (DOMAIN dirtyProps' \cup DOMAIN pendingProps' = StoredNames)
                => pendingProps = EmptyMap]_vars

\* C19 amended: a flush drops every earlier pending entry whose name is not
\* in dirty, so get for that name falls back to original; the names in dirty
\* or pending are the same after the flush exactly when every name of pending
\* was also in dirty before (in particular when pending was empty).
C19_FlushOverwrites ==
    [][lastOp'.op = "flushDirtyPropsToPending" =>
          /\ \A n \in DOMAIN pendingProps \ DOMAIN dirtyProps :
                /\ n \notin DOMAIN dirtyProps' \cup DOMAIN pendingProps'
                /\ get(n)' = OriginalTier(props, n)
          /\ (DOMAIN dirtyProps' \cup DOMAIN pendingProps' = StoredNames)
                <=> DOMAIN pendingProps \subseteq DOMAIN dirtyProps]_vars

\* A second flush with no completion in between, after which a name written
\* and sent earlier is in neither map and get answers from original.
C19_Witness ==
    /\ lastOp.op = "flushDirtyPropsToPending"
    /\ pendingProps # EmptyMap
    /\ \E n \in DOMAIN written : n \in sent /\ n \notin StoredNames
                                  /\ get(n) # written[n]

\* C20: dirty and pending are matched by the exact normalized name, original
\* by nested path: with an object in dirty under a and no entry for a.b,
\* get(a.b) is the nested-path lookup of a.b in original; and a write of a.b
\* leaves get(a) as it was.
C20_ExactNameMatch ==
    /\ \A n \in RawNames :
          LET nn == normalizeModelName(n)
          IN (~isPropNameTopLevel(nn) /\ nn \notin StoredNames)
                => get(n) = getDeepData(props, nn)
    /\ \A in \in SetInputs : \A n \in RawNames :
          normalizeModelName(n) # normalizeModelName(in[1])
             => getFrom(setDirty(in[1], in[2]), pendingProps, props, n) = get(n)

\* An object written under user with no entry for user.firstName: get of
\* user.firstName answers from original, not with the field of that object.
C20_Witness ==
    /\ Lookup(dirtyProps, USER) \in Objects
    /\ <<"user", ".", "firstName">> \notin StoredNames
    /\ lastOp.op = "get"
    /\ lastOp.name = <<"user", ".", "firstName">>
    /\ lastOp.result # Fields(dirtyProps[USER])[FIRSTNAME]
    /\ lastOp.result # UNDEFINED

HasMarker(value) ==
    value \in Objects /\ identifierKey \in DOMAIN Fields(value)
    /\ Fields(value)[identifierKey] # UNDEFINED

\* The name contains a path separator.
HasSeparator(name) == \E i \in 1..Len(name) : name[i] = "."

\* C11 as stated: for a top-level name, whenever the value resolved by the
\* dirty, pending, original precedence is an object carrying the marker, get
\* returns the marker's value; for a name with a path separator get returns
\* the resolved value itself.
C11_ExtractionAtEveryTier ==
    \A n \in RawNames :
        LET nn == normalizeModelName(n)
        IN /\ (~HasSeparator(nn) /\ HasMarker(Resolved(nn)))
                 => get(n) = Fields(Resolved(nn))[identifierKey]
           /\ HasSeparator(nn) => get(n) = Resolved(nn)

\* C11 amended: for a top-level name with no defined entry in dirty or
\* pending, whenever the value found in original is an object carrying the
\* marker, get returns the marker's value; a value resolved from dirty or
\* pending is returned as it is, marker or not; for a name with a path
\* separator get returns the resolved value itself even if it carries the
\* marker.
C11_ExtractionFromOriginal ==
    \A n \in RawNames :
        LET nn == normalizeModelName(n)
            stored == Lookup(dirtyProps, nn) # UNDEFINED \/ Lookup(pendingProps, nn) # UNDEFINED
        IN /\ (~HasSeparator(nn) /\ ~stored /\ HasMarker(getDeepData(props, nn)))
                 => get(n) = Fields(getDeepData(props, nn))[identifierKey]
           /\ stored => get(n) = Resolved(nn)
           /\ HasSeparator(nn) => get(n) = Resolved(nn)

\* A get of user.firstName answered from original with an object that
\* carries the marker, while dirty holds such an object under user.
C11_Witness ==
    /\ lastOp.op = "get"
    /\ lastOp.name = <<"user", ".", "firstName">>
    /\ <<"user", ".", "firstName">> \notin StoredNames
    /\ HasMarker(lastOp.result)
    /\ HasMarker(Lookup(dirtyProps, USER))
    /\ get(USER) = dirtyProps[USER]

PatchKeys(patch) == {patch[i][1] : i \in 1..Len(patch)}

\* C15: original is unchanged by get, has, set, the getters, flush and
\* pushPendingPropsBackToDirty; reinitializeAllProps replaces it as a whole;
\* reinitializeProvidedProps replaces whole top-level entries, by the patch's
\* value, for keys of the patch only, and leaves dirty and pending unchanged.
C15_OriginalFrame ==
    [][/\ lastOp'.op \in {"get", "has", "set", "getOriginalProps", "getDirtyProps",
                          "flushDirtyPropsToPending", "pushPendingPropsBackToDirty"}
             => props' = props
       /\ lastOp'.op = "reinitializeAllProps" => props' = lastOp'.newProps
       /\ lastOp'.op = "reinitializeProvidedProps" =>
             /\ \A k \in (DOMAIN props \cup DOMAIN props') \ PatchKeys(lastOp'.patch) :
                   k \in DOMAIN props /\ k \in DOMAIN props' /\ props'[k] = props[k]
             /\ \A i \in 1..Len(lastOp'.patch) :
                   LET k == lastOp'.patch[i][1]
                   IN \/ k \in DOMAIN props' /\ props'[k] = lastOp'.patch[i][2]
                      \/ k \in DOMAIN props /\ k \in DOMAIN props' /\ props'[k] = props[k]
                      \/ k \notin DOMAIN props /\ k \notin DOMAIN props'
             /\ dirtyProps' = dirtyProps
             /\ pendingProps' = pendingProps]_vars

\* A patch that replaced the entry of one key and left another key of
\* original, outside the patch, in place.
C15_Witness ==
    /\ lastOp.op = "reinitializeProvidedProps"
    /\ lastOp.result = "true"
    /\ Lookup(props, USER) = "objKevin"
    /\ A \notin PatchKeys(lastOp.patch)
    /\ Lookup(props, A) = "1"

\* C16: getOriginalProps and getDirtyProps return a map with the entries of
\* original (of dirty) at the time of the call and change no store state;
\* adding, replacing or removing an entry of the returned map changes nothing
\* the store holds; later calls of the store do not change a map already
\* returned.
C16_Snapshots ==
    [][/\ lastOp'.op = "getOriginalProps" => snap'.map = props /\ UNCHANGED store
       /\ lastOp'.op = "getDirtyProps" => snap'.map = dirtyProps /\ UNCHANGED store
       /\ lastOp'.op \in {"callerPuts", "callerDeletes"} => UNCHANGED store
       /\ lastOp'.op \in {"get", "has", "set", "flushDirtyPropsToPending",
                          "reinitializeAllProps", "pushPendingPropsBackToDirty",
                          "reinitializeProvidedProps"}
             => snap'.map = snap.map]_vars

\* The caller changed the map getOriginalProps returned, and the store wrote
\* to original afterwards: the two differ in both entries.
C16_Witness ==
    /\ snap.kind = "original"
    /\ lastOp.op = "reinitializeProvidedProps"
    /\ lastOp.result = "true"
    /\ Lookup(snap.map, A) = "2"
    /\ Lookup(props, A) # "2"
    /\ Lookup(props, USER) # Lookup(snap.map, USER)

====
